---- MODULE Spec2Model ----
(***************************************************************************)
(* Model of the ShredStream client (src/main.go): the supervisory          *)
(* reconnect loop of main, the stream-reading loop of connectAndSubscribe, *)
(* the non-blocking worker pool it submits to, and the process-wide        *)
(* atomic counters.                                                        *)
(*                                                                         *)
(* One reader goroutine (main) and one goroutine per accepted pool task    *)
(* interleave at the granularity of their atomic counter operations.       *)
(***************************************************************************)
EXTENDS Integers, Naturals, Sequences, FiniteSets, TLC

\* ------------------------------------------------------------------ bounds
\* Number of loop iterations (reads that were not end-of-stream) explored.
MaxFrames == 3
\* Worker capacity of the pool explored; the program passes 10000 to
\* ants.NewPool (main.go:108), the model scales it down so that saturation
\* is reached within MaxFrames reads.
PoolCap == 2
\* Number of failed sessions explored.
MaxReconnects == 1

\* ------------------------------------------------------- program constants
\* processEntry rejects payloads shorter than this (main.go:191).
MinEntryLen == 48
\* Slot-jump threshold of the continuity check (main.go:150).
SlotGap == 10

\* ------------------------------------------------------------------ inputs
\* Payloads the transport delivers, described by what processEntry observes:
\* the byte length, whether parseJitoEntry succeeds, the number of decoded
\* transactions, how many of them hold a watched address before the first
\* fault, and whether the task function panics while it handles the payload
\* (the case the pool's panic handler, main.go:109-111, is installed for).
Corrupt == [len |-> 64, parses |-> FALSE, txs |-> 0, matched |-> 0, fault |-> FALSE]
Good == [len |-> 400, parses |-> TRUE, txs |-> 2, matched |-> 1, fault |-> FALSE]
Faulty == [len |-> 200, parses |-> TRUE, txs |-> 1, matched |-> 0, fault |-> TRUE]

\* Responses the transport delivers. The reader uses only the slot and the
\* workers only the payload, so every sequence of slots and every sequence
\* of payloads is delivered although not every pairing is.
Responses == {[slot |-> 1000, data |-> Good],
              [slot |-> 1005, data |-> Corrupt],
              [slot |-> 1015, data |-> Faulty]}

\* What the generated getters return on the nil response that accompanies a
\* read error: GetSlot() = 0 and GetEntries() = nil (main.go:127-130).
NilResp == [slot |-> 0,
            data |-> [len |-> 0, parses |-> FALSE, txs |-> 0, matched |-> 0, fault |-> FALSE]]

\* A response once its payload has been copied into the task's entry
\* (main.go:126-130): only GetSlot() is read from it afterwards (main.go:148).
Copied(r) == [slot |-> r.slot]

\* The one address watched (main.go:28) and its label.
PumpAddress == "TSLvdd1pWpHVjahSpsvCXUbgwsL3JAcvokwaKt1eokM"
PumpWatchList == [s \in {PumpAddress} |-> "pump"]

\* Nothing printed by printStats yet; decoder or matcher not called yet.
NoReport == [printed |-> FALSE]
NotCalled == [called |-> FALSE]

VARIABLES
    pc,             \* position of the main goroutine
    err,            \* error of the last stream.Recv(): "nil", "EOF", "error"
    resp,           \* what is still read of the response of the last stream.Recv()
    tasks,          \* one record per loop iteration: the entry copy and its task
    warned,         \* console: the last slot check printed the slot-jump warning
    totalEntries,
    parsedEntries,
    failedEntries,
    totalTxs,
    matchedTxs,
    parseErrors,
    reconnectCount,
    lastSlot,
    failedSessions, \* history: calls of connectAndSubscribe that returned an error
    rxbuf,          \* the transport's receive buffer: payload of the last response
    report,         \* console: the last block printed by printStats
    entriesData,    \* decoder: the payload bytes given to processEntry
    result,         \* decoder: what the last call on entriesData returned
    accountKeys,    \* matcher: the message given to containsAddresses
    foundAddresses, \* matcher: what containsAddresses returned
    targetAddresses \* the watch-list: address string -> label (main.go:24-31)

counters == <<totalEntries, parsedEntries, failedEntries, totalTxs, matchedTxs,
              parseErrors, reconnectCount, lastSlot>>
history == <<failedSessions>>
vars == <<pc, err, resp, tasks, warned, totalEntries, parsedEntries, failedEntries,
          totalTxs, matchedTxs, parseErrors, reconnectCount, lastSlot,
          failedSessions, rxbuf, report, entriesData, result, accountKeys,
          foundAddresses, targetAddresses>>
\* State of the reporter, of the decoder and of the matcher, which the
\* stream reader and the workers' bookkeeping never touch.
aside == <<report, entriesData, result, accountKeys, foundAddresses, targetAddresses>>

\* Task states: entry copy built but not yet submitted, rejected by the
\* pool, accepted and waiting for its worker, processEntry returned, and the
\* three ends of the task function.
InFlight == {"queued", "ret_ok", "ret_err"}
Ended == {"parsed", "failed", "panicked"}
TaskStates == {"pulled", "dropped"} \cup InFlight \cup Ended

\* The process at its start, but for the arguments of the decoder and of
\* the matcher.
InitProcess ==
    /\ pc = "dial"
    /\ err = "nil"
    /\ resp = Copied(NilResp)
    /\ tasks = <<>>
    /\ warned = FALSE
    /\ totalEntries = 0
    /\ parsedEntries = 0
    /\ failedEntries = 0
    /\ totalTxs = 0
    /\ matchedTxs = 0
    /\ parseErrors = 0
    /\ reconnectCount = 0
    /\ lastSlot = 0
    /\ failedSessions = 0
    /\ rxbuf = NilResp.data
    /\ report = NoReport
    /\ result = NotCalled
    /\ foundAddresses = NotCalled
    /\ targetAddresses = PumpWatchList

Init ==
    /\ InitProcess
    /\ entriesData = <<>>
    /\ accountKeys = <<>>

\* ------------------------------------------------------------------- pool
\* Workers of the current session's pool that are not free.
Busy == Cardinality({i \in DOMAIN tasks : tasks[i].cur})

\* pool.Release() (deferred, main.go:115): tasks already handed to a worker
\* run to their end, but no longer occupy the pool of the next session.
Released(ts) == [i \in DOMAIN ts |-> [ts[i] EXCEPT !.cur = FALSE]]

\* ------------------------------------------------------------- supervisor
\* grpc.Dial, SubscribeEntries and ants.NewPool all succeed (main.go:80-115).
ConnectOK ==
    /\ pc = "dial"
    /\ err' = "nil"
    /\ pc' = "recv"
    /\ UNCHANGED <<resp, tasks, warned, counters, history, rxbuf, aside>>

\* grpc.Dial or SubscribeEntries fails: connectAndSubscribe returns the
\* wrapped error (main.go:81-83, 96-98).
ConnectFail ==
    /\ pc = "dial"
    /\ failedSessions < MaxReconnects
    /\ pc' = "returned_err"
    /\ failedSessions' = failedSessions + 1
    /\ UNCHANGED <<err, resp, tasks, warned, counters, rxbuf, aside>>

\* Mutant of CountReconnect: the error branch forgets the increment.
CountReconnectMissing ==
    /\ pc = "returned_err"
    /\ pc' = "sleep"
    /\ UNCHANGED <<err, resp, tasks, warned, counters, history, rxbuf, aside>>

\* main.go:57-60: the error branch of the reconnect loop.
CountReconnect ==
    /\ pc = "returned_err"
    /\ reconnectCount' = reconnectCount + 1
    /\ pc' = "sleep"
    /\ UNCHANGED <<err, resp, tasks, warned, totalEntries, parsedEntries, failedEntries,
                   totalTxs, matchedTxs, parseErrors, lastSlot, history, rxbuf, aside>>

\* main.go:61-62: time.Sleep(5 * time.Second); continue.
Backoff ==
    /\ pc = "sleep"
    /\ pc' = "dial"
    /\ UNCHANGED <<err, resp, tasks, warned, counters, history, rxbuf, aside>>

\* ----------------------------------------------------------- stream reader
\* The task record of a loop iteration: the entry copy built from the
\* response (main.go:126-130), whether the read had failed, the state of the
\* task, and whether it holds a worker of the current session's pool.
NewTask(r, e) ==
    [slot |-> r.slot, data |-> r.data, readErr |-> (e = "error"),
     st |-> "pulled", cur |-> FALSE]

\* stream.Recv() returns a response (main.go:119).
RecvFrame ==
    /\ pc = "recv"
    /\ Len(tasks) < MaxFrames
    /\ \E r \in Responses :
        /\ rxbuf' = r.data
        /\ resp' = Copied(r)
        /\ tasks' = Append(tasks, NewTask(r, "nil"))
    /\ err' = "nil"
    /\ pc' = "submit"
    /\ UNCHANGED <<warned, counters, history, aside>>

\* stream.Recv() returns a nil response and an error other than io.EOF.
\* Only io.EOF is tested (main.go:120), so the loop body runs on the nil
\* response.
RecvError ==
    /\ pc = "recv"
    /\ Len(tasks) < MaxFrames
    /\ resp' = Copied(NilResp)
    /\ tasks' = Append(tasks, NewTask(NilResp, "error"))
    /\ err' = "error"
    /\ pc' = "submit"
    /\ UNCHANGED <<warned, counters, history, rxbuf, aside>>

\* Mutant of RecvEOF: end-of-stream is returned to main as an error.
RecvEOFAsError ==
    /\ pc = "recv"
    /\ resp' = Copied(NilResp)
    /\ err' = "EOF"
    /\ tasks' = Released(tasks)
    /\ pc' = "returned_err"
    /\ failedSessions' = failedSessions + 1
    /\ UNCHANGED <<warned, counters, rxbuf, aside>>

\* stream.Recv() returns a nil response and io.EOF: connectAndSubscribe
\* returns nil, its deferred pool.Release() runs, and main calls it again
\* (main.go:120-123, 56-64).
RecvEOF ==
    /\ pc = "recv"
    /\ resp' = Copied(NilResp)
    /\ err' = "EOF"
    /\ tasks' = Released(tasks)
    /\ pc' = "dial"
    /\ UNCHANGED <<warned, counters, history, rxbuf, aside>>

\* Outcome of pool.Submit on a pool built WithNonblocking(true)
\* (main.go:111): the task is handed to a worker if one is free, otherwise
\* Submit returns ErrPoolOverload at once; the return value is discarded
\* (main.go:132).
SubmitOutcome(busy) == IF busy < PoolCap THEN "queued" ELSE "dropped"

\* Mutant of Submit: a pool built without WithNonblocking(true), whose
\* Submit waits for a free worker.
SubmitBlocking ==
    /\ pc = "submit"
    /\ Busy < PoolCap
    /\ tasks' = [tasks EXCEPT ![Len(tasks)] = [@ EXCEPT !.st = "queued", !.cur = TRUE]]
    /\ pc' = "count"
    /\ UNCHANGED <<err, resp, warned, counters, history, rxbuf, aside>>

\* main.go:132-144: pool.Submit(func() {...}).
Submit ==
    /\ pc = "submit"
    /\ LET o == SubmitOutcome(Busy)
       IN tasks' = [tasks EXCEPT ![Len(tasks)] =
                       [@ EXCEPT !.st = o, !.cur = (o = "queued")]]
    /\ pc' = "count"
    /\ UNCHANGED <<err, resp, warned, counters, history, rxbuf, aside>>

\* Mutant of CountEntry: only frames the pool accepted are counted.
CountEntryIfAccepted ==
    /\ pc = "count"
    /\ totalEntries' = totalEntries + (IF tasks[Len(tasks)].st = "dropped" THEN 0 ELSE 1)
    /\ pc' = "slot"
    /\ UNCHANGED <<err, resp, tasks, warned, parsedEntries, failedEntries, totalTxs,
                   matchedTxs, parseErrors, reconnectCount, lastSlot, history, rxbuf, aside>>

\* main.go:146: atomic.AddInt64(&totalEntries, 1).
CountEntry ==
    /\ pc = "count"
    /\ totalEntries' = totalEntries + 1
    /\ pc' = "slot"
    /\ UNCHANGED <<err, resp, tasks, warned, parsedEntries, failedEntries, totalTxs,
                   matchedTxs, parseErrors, reconnectCount, lastSlot, history, rxbuf, aside>>

\* Mutant of GapWarning: the comparison is not strict.
GapWarningAtLeast(lastSlotValue, currentSlot) ==
    lastSlotValue > 0 /\ currentSlot >= lastSlotValue + SlotGap

\* main.go:150: the condition of the slot-jump warning.
GapWarning(lastSlotValue, currentSlot) ==
    lastSlotValue > 0 /\ currentSlot > lastSlotValue + SlotGap

\* Mutant of StoredSlot: lastSlot kept as a high-water mark.
StoredSlotMax(lastSlotValue, currentSlot) ==
    IF currentSlot > lastSlotValue THEN currentSlot ELSE lastSlotValue

\* main.go:154: the value stored into lastSlot.
StoredSlot(lastSlotValue, currentSlot) == currentSlot

\* main.go:148-154: the slot continuity check, then back to stream.Recv().
SlotCheck ==
    /\ pc = "slot"
    /\ warned' = GapWarning(lastSlot, resp.slot)
    /\ lastSlot' = StoredSlot(lastSlot, resp.slot)
    /\ pc' = "recv"
    /\ UNCHANGED <<err, resp, tasks, totalEntries, parsedEntries, failedEntries, totalTxs,
                   matchedTxs, parseErrors, reconnectCount, history, rxbuf, aside>>

\* ----------------------------------------------------------------- workers
\* processEntry (main.go:185-237) on an entry copy: "err" for a payload that
\* is too small or does not parse, "panic" when handling the payload panics,
\* "ok" otherwise.
ProcessResult(d) ==
    IF d.len < MinEntryLen THEN "err"
    ELSE IF ~d.parses THEN "err"
    ELSE IF d.fault THEN "panic"
    ELSE "ok"

\* Transactions added to totalTxs by processEntry (main.go:205); nothing is
\* added when it returns before decoding.
TxsCounted(d) == IF ProcessResult(d) = "err" THEN 0 ELSE d.txs

\* Transactions added to matchedTxs by processEntry (main.go:214-216).
TxsMatched(d) == IF ProcessResult(d) = "err" THEN 0 ELSE d.matched

\* Mutant of PanicHandler: the panic is counted as a failed entry.
PanicHandlerFailedEntry ==
    /\ failedEntries' = failedEntries + 1
    /\ UNCHANGED <<parseErrors, parsedEntries>>

\* The panic handler given to the pool (main.go:108-111), which the pool
\* calls from the worker's recover.
PanicHandler ==
    /\ parseErrors' = parseErrors + 1
    /\ UNCHANGED <<failedEntries, parsedEntries>>

\* Mutant of AfterProcess: the worker of a panicked task is not given back
\* to the pool.
AfterProcessWorkerLost(t, r) ==
    IF r = "panic" THEN [t EXCEPT !.st = "panicked"]
    ELSE [t EXCEPT !.st = IF r = "ok" THEN "ret_ok" ELSE "ret_err"]

\* The task record after processEntry ended with result r: a panic ends the
\* task and frees its worker, a return leaves the task to count its outcome.
AfterProcess(t, r) ==
    IF r = "panic" THEN [t EXCEPT !.st = "panicked", !.cur = FALSE]
    ELSE [t EXCEPT !.st = IF r = "ok" THEN "ret_ok" ELSE "ret_err"]

\* Mutant of RunTask: the task is handed the response's own byte slice, so
\* the worker decodes whatever the receive buffer holds when it runs.
RunTaskFromReceiveBuffer(i) ==
    /\ i \in DOMAIN tasks
    /\ tasks[i].st = "queued"
    /\ LET d == rxbuf
           r == ProcessResult(d)
       IN /\ totalTxs' = totalTxs + TxsCounted(d)
          /\ matchedTxs' = matchedTxs + TxsMatched(d)
          /\ IF r = "panic"
             THEN PanicHandler
             ELSE UNCHANGED <<parseErrors, failedEntries, parsedEntries>>
          /\ tasks' = [tasks EXCEPT ![i] = AfterProcess(@, r)]
    /\ UNCHANGED <<pc, err, resp, warned, totalEntries, reconnectCount, lastSlot, history, rxbuf, aside>>

\* A worker runs processEntry of task i (main.go:133).
RunTask(i) ==
    /\ i \in DOMAIN tasks
    /\ tasks[i].st = "queued"
    /\ LET d == tasks[i].data
           r == ProcessResult(d)
       IN /\ totalTxs' = totalTxs + TxsCounted(d)
          /\ matchedTxs' = matchedTxs + TxsMatched(d)
          /\ IF r = "panic"
             THEN PanicHandler
             ELSE UNCHANGED <<parseErrors, failedEntries, parsedEntries>>
          /\ tasks' = [tasks EXCEPT ![i] = AfterProcess(@, r)]
    /\ UNCHANGED <<pc, err, resp, warned, totalEntries, reconnectCount, lastSlot, history, rxbuf, aside>>

\* Mutant of CountOutcome: the else of main.go:141 is missing, so a failed
\* entry is counted as parsed too.
CountOutcomeNoElse(st) ==
    /\ failedEntries' = failedEntries + (IF st = "ret_err" THEN 1 ELSE 0)
    /\ parsedEntries' = parsedEntries + 1

\* The counter a task adds one to when processEntry returned (main.go:133-143).
CountOutcome(st) ==
    IF st = "ret_err"
    THEN /\ failedEntries' = failedEntries + 1
         /\ UNCHANGED parsedEntries
    ELSE /\ parsedEntries' = parsedEntries + 1
         /\ UNCHANGED failedEntries

\* The task counts its own outcome and its worker becomes free.
FinishTask(i) ==
    /\ i \in DOMAIN tasks
    /\ tasks[i].st \in {"ret_ok", "ret_err"}
    /\ CountOutcome(tasks[i].st)
    /\ tasks' = [tasks EXCEPT ![i] =
                    [@ EXCEPT !.st = IF @ = "ret_err" THEN "failed" ELSE "parsed",
                              !.cur = FALSE]]
    /\ UNCHANGED <<pc, err, resp, warned, totalEntries, totalTxs, matchedTxs, parseErrors,
                   reconnectCount, lastSlot, history, rxbuf, aside>>

Next ==
    \/ ConnectOK
    \/ ConnectFail
    \/ CountReconnect
    \/ Backoff
    \/ RecvFrame
    \/ RecvError
    \/ RecvEOF
    \/ Submit
    \/ CountEntry
    \/ SlotCheck
    \/ \E i \in 1..MaxFrames : RunTask(i)
    \/ \E i \in 1..MaxFrames : FinishTask(i)

Spec == Init /\ [][Next]_vars

\* --------------------------------------------------------------- reporter
\* float64(n) / float64(d) * 100 (main.go:172-173), kept as the fraction it
\* is: with d = 0 the float division gives NaN (n = 0) or +Inf, not an error.
Rate(n, d) == [num |-> 100 * n, den |-> d]

\* One tick of printStats (main.go:162-181): seven counters are loaded,
\* failedEntries is not; the block is printed only when total > 0, and both
\* "失败" and "解析错误" print the value loaded from parseErrors.
PrintStats ==
    /\ LET total == totalEntries
           parsed == parsedEntries
           txs == totalTxs
           matched == matchedTxs
           errors == parseErrors
           reconnects == reconnectCount
           currentSlot == lastSlot
       IN IF total > 0
          THEN report' = [printed |-> TRUE,
                          slot |-> currentSlot,
                          total |-> total,
                          parsed |-> parsed,
                          successRate |-> Rate(parsed, total),
                          failed |-> errors,
                          txs |-> txs,
                          matched |-> matched,
                          matchRate |-> Rate(matched, txs),
                          parseErrors |-> errors,
                          reconnects |-> reconnects]
          ELSE UNCHANGED report
    /\ UNCHANGED <<pc, err, resp, tasks, warned, counters, history, rxbuf,
                   entriesData, result, accountKeys, foundAddresses, targetAddresses>>

StatsNext == Next \/ PrintStats

\* The program with its reporter goroutine (go printStats(), main.go:53).
StatsSpec == Init /\ [][StatsNext]_vars

\* ---------------------------------------------------------------- matcher
\* n bytes of value b.
Bytes(n, b) == [i \in 1..n |-> b]

\* F applied to the value of v, which is computed once.
With(v, F(_)) == CHOOSE r \in {F(x) : x \in {v}} : TRUE

\* The base-58 alphabet of solana.PublicKey.String().
Alphabet == <<"1", "2", "3", "4", "5", "6", "7", "8", "9", "A", "B", "C", "D", "E", "F",
              "G", "H", "J", "K", "L", "M", "N", "P", "Q", "R", "S", "T", "U", "V", "W",
              "X", "Y", "Z", "a", "b", "c", "d", "e", "f", "g", "h", "i", "j", "k", "m",
              "n", "o", "p", "q", "r", "s", "t", "u", "v", "w", "x", "y", "z">>

RECURSIVE StripZeros(_)
StripZeros(b) == IF b # <<>> /\ Head(b) = 0 THEN StripZeros(Tail(b)) ELSE b

\* Three base-58 digits are taken at a time.
Radix == 58 * 58 * 58

\* One step of the long division of the big-endian number b by Radix: d
\* holds the next byte index i, the remainder carried and the quotient
\* bytes q found so far.
DivStep(b, d) ==
    [i |-> d.i + 1,
     carry |-> (d.carry * 256 + b[d.i]) % Radix,
     q |-> Append(d.q, (d.carry * 256 + b[d.i]) \div Radix)]

RECURSIVE DivMod(_, _)
DivMod(b, d) ==
    IF d.i > Len(b) THEN d
    ELSE With(DivStep(b, d), LAMBDA e : DivMod(b, e))

\* The digits of r, below Radix: all three of them, or without leading
\* zero digits for the most significant group.
Group(r, leading) ==
    LET hi == Alphabet[(r \div (58 * 58)) + 1]
        mid == Alphabet[((r \div 58) % 58) + 1]
        lo == Alphabet[(r % 58) + 1]
    IN IF ~leading THEN hi \o mid \o lo
       ELSE IF r >= 58 * 58 THEN hi \o mid \o lo
       ELSE IF r >= 58 THEN mid \o lo
       ELSE lo

\* The base-58 digits of the big-endian number b (no leading zero byte),
\* most significant first, by repeated division.
RECURSIVE Digits58(_)
Digits58(b) ==
    IF b = <<>> THEN ""
    ELSE With([d |-> DivMod(b, [i |-> 1, carry |-> 0, q |-> <<>>])],
              LAMBDA x : With(StripZeros(x.d.q),
                              LAMBDA q : Digits58(q) \o Group(x.d.carry, q = <<>>)))

\* One "1" for every leading zero byte.
RECURSIVE LeadingOnes(_)
LeadingOnes(b) == IF b # <<>> /\ Head(b) = 0 THEN "1" \o LeadingOnes(Tail(b)) ELSE ""

\* key.String() (main.go:518): the base-58 text of the 32 key bytes.
String(key) == LeadingOnes(key) \o With(StripZeros(key), LAMBDA b : Digits58(b))

\* Mutant of ScanKeys: the scan gives up at the first key that is not
\* watched.
RECURSIVE ScanKeysStopAtMiss(_, _, _)
ScanKeysStopAtMiss(keys, i, found) ==
    IF i > Len(keys) THEN found
    ELSE With(String(keys[i]),
              LAMBDA keyStr :
                  IF keyStr \in DOMAIN targetAddresses
                  THEN With([s \in DOMAIN found \cup {keyStr} |->
                                IF s = keyStr THEN targetAddresses[keyStr] ELSE found[s]],
                            LAMBDA f : ScanKeysStopAtMiss(keys, i + 1, f))
                  ELSE found)

\* The loop of containsAddresses (main.go:516-541) from index i on, with
\* the map built so far.
RECURSIVE ScanKeys(_, _, _)
ScanKeys(keys, i, found) ==
    IF i > Len(keys) THEN found
    ELSE With(String(keys[i]),
              LAMBDA keyStr :
                  IF keyStr \in DOMAIN targetAddresses
                  THEN With([s \in DOMAIN found \cup {keyStr} |->
                                IF s = keyStr THEN targetAddresses[keyStr] ELSE found[s]],
                            LAMBDA f : ScanKeys(keys, i + 1, f))
                  ELSE ScanKeys(keys, i + 1, found))

\* containsAddresses(message, tx) (main.go:513-544). On a hit it prints
\* tx.Signatures[0] (main.go:520), which panics on a transaction without
\* signatures.
containsAddresses(message, tx) ==
    With(ScanKeys(message.AccountKeys, 1, <<>>),
         LAMBDA found : [panic |-> DOMAIN found # {} /\ Len(tx.Signatures) = 0,
                         found |-> found])

\* Longest account table given to the matcher.
MaxKeys == 3

\* The watched key (the 32 bytes whose base-58 text is PumpAddress), the
\* same key with its last byte changed, the all-zero key of the system
\* program and the key of the token program.
PumpKey == <<6, 197, 193, 206, 99, 141, 37, 103, 210, 100, 104, 176, 94, 185, 81, 209,
             162, 141, 204, 110, 18, 52, 130, 181, 198, 117, 20, 151, 112, 230, 43, 242>>
NearPumpKey == [PumpKey EXCEPT ![32] = 243]
SystemKey == Bytes(32, 0)
TokenKey == <<6, 221, 246, 225, 215, 101, 161, 147, 217, 203, 225, 70, 206, 235, 121, 172,
              28, 180, 133, 237, 95, 91, 55, 145, 58, 140, 245, 133, 126, 255, 0, 169>>
SampleKeys == {PumpKey, NearPumpKey, SystemKey, TokenKey}

\* A transaction with one signature, as the decoder hands them to the
\* matcher.
SignedTx == [Signatures |-> <<Bytes(64, 1)>>]

MatchInit ==
    /\ InitProcess
    /\ entriesData = <<>>
    /\ accountKeys \in UNION {[1..n -> SampleKeys] : n \in 0..MaxKeys}

\* One call of containsAddresses on the message.
CallContainsAddresses ==
    /\ foundAddresses = NotCalled
    /\ foundAddresses' = With(containsAddresses([AccountKeys |-> accountKeys], SignedTx),
                              LAMBDA r : [called |-> TRUE, panic |-> r.panic,
                                          found |-> r.found])
    /\ UNCHANGED <<pc, err, resp, tasks, warned, counters, history, rxbuf, report,
                   entriesData, result, accountKeys, targetAddresses>>

MatchNext == CallContainsAddresses

\* The matcher on its own, over every account table of up to MaxKeys keys.
MatchSpec == MatchInit /\ [][MatchNext]_vars

\* ---------------------------------------------------------------- decoder
\* Largest num_hashes and num_txns parseStandardEntry accepts, and the bytes
\* it assumes a transaction takes at least (main.go:250, 270, 275).
MaxNumHashes == 1000000
MaxNumTxns == 10000
MinTxBytes == 100
\* Bytes of the Jito header parseJitoEntry skips, and the shortest buffer it
\* looks into (main.go:306-316).
HeaderLen == 8
MinJitoLen == 16
\* Bytes of an entry hash (main.go:255), of a uint64, of a signature and of
\* an account key.
HashLen == 32
Uint64Len == 8
SignatureLen == 64
KeyLen == 32

\* A read that failed.
Fail(why) == [ok |-> FALSE, why |-> why]

\* decoder.Remaining() of a decoder over data that has consumed pos bytes.
Remaining(data, pos) == Len(data) - pos

\* decoder.ReadUint64(bin.LE) at pos. The 64-bit value is kept in three
\* limbs, lo + 2^24 * mid + 2^48 * top, so that no bit of it is lost.
ReadUint64(data, pos) ==
    IF Remaining(data, pos) < Uint64Len THEN Fail("short")
    ELSE [ok |-> TRUE,
          lo |-> data[pos + 1] + 256 * data[pos + 2] + 65536 * data[pos + 3],
          mid |-> data[pos + 4] + 256 * data[pos + 5] + 65536 * data[pos + 6],
          top |-> data[pos + 7] + 256 * data[pos + 8]]

\* v > k for a 64-bit value v and a limit k below 2^24.
Exceeds(v, k) == v.top > 0 \/ v.mid > 0 \/ v.lo > k

\* A compact length at pos: 7 bits per byte, low bits first, the top bit of
\* a byte says another byte follows; at most 3 bytes and 16 bits.
ReadCompactU16(data, pos) ==
    IF Remaining(data, pos) < 1 THEN Fail("Truncated")
    ELSE LET b1 == data[pos + 1]
         IN IF b1 < 128 THEN [ok |-> TRUE, val |-> b1, pos |-> pos + 1]
            ELSE IF Remaining(data, pos) < 2 THEN Fail("Truncated")
            ELSE LET b2 == data[pos + 2]
                 IN IF b2 < 128
                    THEN [ok |-> TRUE, val |-> (b1 - 128) + 128 * b2, pos |-> pos + 2]
                    ELSE IF Remaining(data, pos) < 3 THEN Fail("Truncated")
                    ELSE LET b3 == data[pos + 3]
                         IN IF b3 > 3 THEN Fail("BadLength")
                            ELSE [ok |-> TRUE,
                                  val |-> (b1 - 128) + 128 * (b2 - 128) + 16384 * b3,
                                  pos |-> pos + 3]

\* n items of width bytes each at pos.
ReadArray(data, pos, n, width) ==
    IF Remaining(data, pos) < n * width THEN Fail("Truncated")
    ELSE [ok |-> TRUE,
          val |-> [i \in 1..n |-> SubSeq(data, pos + (i - 1) * width + 1, pos + i * width)],
          pos |-> pos + n * width]

\* One instruction at pos: program-id index, account indices, data.
ReadInstruction(data, pos) ==
    IF Remaining(data, pos) < 1 THEN Fail("Truncated")
    ELSE With(ReadCompactU16(data, pos + 1), LAMBDA na :
         IF ~na.ok THEN na
         ELSE IF Remaining(data, na.pos) < na.val THEN Fail("Truncated")
         ELSE With(ReadCompactU16(data, na.pos + na.val), LAMBDA nd :
              IF ~nd.ok THEN nd
              ELSE IF Remaining(data, nd.pos) < nd.val THEN Fail("Truncated")
              ELSE [ok |-> TRUE,
                    val |-> [ProgramIDIndex |-> data[pos + 1],
                             Accounts |-> SubSeq(data, na.pos + 1, na.pos + na.val),
                             Data |-> SubSeq(data, nd.pos + 1, nd.pos + nd.val)],
                    pos |-> nd.pos + nd.val]))

\* n instructions from c.pos on, after those of c.val.
RECURSIVE ReadInstructions(_, _, _)
ReadInstructions(data, n, c) ==
    IF n = 0 THEN c
    ELSE With(ReadInstruction(data, c.pos), LAMBDA r :
         IF ~r.ok THEN r
         ELSE With([ok |-> TRUE, val |-> Append(c.val, r.val), pos |-> r.pos],
                   LAMBDA d : ReadInstructions(data, n - 1, d)))

\* tx.UnmarshalWithDecoder(decoder) at pos (main.go:283): signatures (at
\* least one), the 3-byte header, account keys, recent blockhash,
\* instructions; pos moves by the bytes consumed.
UnmarshalTransaction(data, pos) ==
    With(ReadCompactU16(data, pos), LAMBDA ns :
    IF ~ns.ok THEN ns
    ELSE IF ns.val = 0 THEN Fail("NoSignatures")
    ELSE With(ReadArray(data, ns.pos, ns.val, SignatureLen), LAMBDA sigs :
    IF ~sigs.ok THEN sigs
    ELSE IF Remaining(data, sigs.pos) < 3 THEN Fail("Truncated")
    ELSE With(ReadCompactU16(data, sigs.pos + 3), LAMBDA nk :
    IF ~nk.ok THEN nk
    ELSE With(ReadArray(data, nk.pos, nk.val, KeyLen), LAMBDA keys :
    IF ~keys.ok THEN keys
    ELSE IF Remaining(data, keys.pos) < HashLen THEN Fail("Truncated")
    ELSE With(ReadCompactU16(data, keys.pos + HashLen), LAMBDA ni :
    IF ~ni.ok THEN ni
    ELSE With(ReadInstructions(data, ni.val, [ok |-> TRUE, val |-> <<>>, pos |-> ni.pos]),
              LAMBDA ins :
    IF ~ins.ok THEN ins
    ELSE [ok |-> TRUE,
          pos |-> ins.pos,
          val |-> [Signatures |-> sigs.val,
                   Message |->
                     [Header |-> SubSeq(data, sigs.pos + 1, sigs.pos + 3),
                      AccountKeys |-> keys.val,
                      RecentBlockhash |-> SubSeq(data, keys.pos + 1, keys.pos + HashLen),
                      Instructions |-> ins.val]]]))))))

\* A parser's return: the error ("nil" for none) and the entry pointer, an
\* empty sequence for nil.
ParseError(e) == [err |-> e, entry |-> <<>>]

\* Mutant of TxFailure: any transaction that fails fails the entry.
TxFailureAlwaysError(i, transactions) ==
    [err |-> "FirstTransactionCorrupt", transactions |-> <<>>]

\* main.go:283-289: transaction i (from 0) failed to decode; the first one
\* is an error, a later one ends the loop with what was decoded.
TxFailure(i, transactions) ==
    IF i = 0
    THEN [err |-> "FirstTransactionCorrupt", transactions |-> <<>>]
    ELSE [err |-> "nil", transactions |-> transactions]

\* main.go:281-291: the transaction loop from transaction i on, the decoder
\* standing at pos.
RECURSIVE ReadTransactions(_, _, _, _, _)
ReadTransactions(data, pos, i, numTxns, transactions) ==
    IF i >= numTxns THEN [err |-> "nil", transactions |-> transactions]
    ELSE With(UnmarshalTransaction(data, pos), LAMBDA tx :
         IF ~tx.ok THEN TxFailure(i, transactions)
         ELSE With([pos |-> tx.pos, i |-> i + 1, txs |-> Append(transactions, tx.val)],
                   LAMBDA c : ReadTransactions(data, c.pos, c.i, numTxns, c.txs)))

\* Mutant of TxnCountError: the size estimate is tested before the limit.
TxnCountErrorSizeFirst(numTxns, remaining) ==
    IF numTxns.lo * MinTxBytes > remaining THEN "InsufficientBytes"
    ELSE IF Exceeds(numTxns, MaxNumTxns) THEN "UnreasonableTxnCount"
    ELSE "nil"

\* main.go:269-278: the two checks of num_txns, with remaining bytes after
\* the count.
TxnCountError(numTxns, remaining) ==
    IF Exceeds(numTxns, MaxNumTxns) THEN "UnreasonableTxnCount"
    ELSE IF numTxns.lo * MinTxBytes > remaining THEN "InsufficientBytes"
    ELSE "nil"

\* parseStandardEntry (main.go:240-299).
parseStandardEntry(data) ==
    With(ReadUint64(data, 0), LAMBDA numHashes :
    IF ~numHashes.ok THEN ParseError("ReadNumHashes")
    ELSE IF Exceeds(numHashes, MaxNumHashes) THEN ParseError("UnreasonableHashCount")
    ELSE IF Remaining(data, Uint64Len) < HashLen THEN ParseError("ReadHash")
    ELSE With(ReadUint64(data, Uint64Len + HashLen), LAMBDA numTxns :
    IF ~numTxns.ok THEN ParseError("ReadNumTxns")
    ELSE With(TxnCountError(numTxns, Remaining(data, 2 * Uint64Len + HashLen)),
              LAMBDA countErr :
    IF countErr # "nil" THEN ParseError(countErr)
    ELSE With(ReadTransactions(data, 2 * Uint64Len + HashLen, 0, numTxns.lo, <<>>),
              LAMBDA r :
    IF r.err # "nil" THEN ParseError(r.err)
    ELSE [err |-> "nil",
          entry |-> <<[NumHashes |-> numHashes.lo,
                       Hash |-> SubSeq(data, Uint64Len + 1, Uint64Len + HashLen),
                       Transactions |-> r.transactions]>>]))))

\* Mutant of parseJitoEntry: the header is not skipped.
parseJitoEntryKeepsHeader(data) ==
    IF Remaining(data, 0) < MinJitoLen THEN ParseError("HeaderTooShort")
    ELSE parseStandardEntry(data)

\* parseJitoEntry (main.go:302-317); with 16 bytes or more the read of the
\* header cannot fail.
parseJitoEntry(data) ==
    IF Remaining(data, 0) < MinJitoLen THEN ParseError("HeaderTooShort")
    ELSE With(SubSeq(data, HeaderLen + 1, Len(data)),
              LAMBDA rest : parseStandardEntry(rest))

\* What processEntry does with the transactions of a decoded entry
\* (main.go:205-234): the addition to totalTxs, the addition to matchedTxs,
\* and the panic of main.go:224 and 520.
Handled(txs) ==
    With([i \in 1..Len(txs) |-> containsAddresses(txs[i].Message, txs[i])], LAMBDA m :
        [err |-> "nil", cause |-> "nil", txs |-> Len(txs),
         matched |-> Cardinality({i \in DOMAIN m : DOMAIN m[i].found # {}}),
         panic |-> \E i \in DOMAIN m : m[i].panic])

\* Mutant of processEntry: no test of the payload length.
processEntryNoMinLen(data) ==
    With(parseJitoEntry(data), LAMBDA p :
        IF p.err # "nil"
        THEN [err |-> "AllParsersFailed", cause |-> p.err, txs |-> 0, matched |-> 0,
              panic |-> FALSE]
        ELSE Handled(p.entry[1].Transactions))

\* processEntry (main.go:185-237) on payload bytes: its error, the error it
\* wraps, what it adds to totalTxs and to matchedTxs, and whether it panics.
processEntry(data) ==
    IF Len(data) < MinEntryLen
    THEN [err |-> "TooSmall", cause |-> "nil", txs |-> 0, matched |-> 0, panic |-> FALSE]
    ELSE With(parseJitoEntry(data), LAMBDA p :
         IF p.err # "nil"
         THEN [err |-> "AllParsersFailed", cause |-> p.err, txs |-> 0, matched |-> 0,
               panic |-> FALSE]
         ELSE Handled(p.entry[1].Transactions))

\* ------------------------------------------------------ reference encoder
\* The compact length of n: 7 bits per byte, low bits first.
EncodeCompactU16(n) ==
    IF n < 128 THEN <<n>>
    ELSE IF n < 16384 THEN <<128 + (n % 128), n \div 128>>
    ELSE <<128 + (n % 128), 128 + ((n \div 128) % 128), n \div 16384>>

\* The 8 little-endian bytes of n, for n below 2^24.
EncodeUint64(n) == <<n % 256, (n \div 256) % 256, (n \div 65536) % 256, 0, 0, 0, 0, 0>>

RECURSIVE Flatten(_)
Flatten(seqs) == IF seqs = <<>> THEN <<>> ELSE Head(seqs) \o Flatten(Tail(seqs))

EncodeInstruction(in) ==
    <<in.ProgramIDIndex>> \o EncodeCompactU16(Len(in.Accounts)) \o in.Accounts
        \o EncodeCompactU16(Len(in.Data)) \o in.Data

EncodeTransaction(tx) ==
    EncodeCompactU16(Len(tx.Signatures)) \o Flatten(tx.Signatures)
        \o tx.Message.Header
        \o EncodeCompactU16(Len(tx.Message.AccountKeys)) \o Flatten(tx.Message.AccountKeys)
        \o tx.Message.RecentBlockhash
        \o EncodeCompactU16(Len(tx.Message.Instructions))
        \o Flatten([i \in DOMAIN tx.Message.Instructions |->
                       EncodeInstruction(tx.Message.Instructions[i])])

\* The 8 bytes in front of an entry in the headered framing.
JitoHeader == <<74, 105, 116, 111, 0, 0, 0, 1>>

\* An entry in the headered framing: header, num_hashes, hash, num_txns,
\* transactions.
EncodeEntry(e) ==
    JitoHeader \o EncodeUint64(e.NumHashes) \o e.Hash
        \o EncodeUint64(Len(e.Transactions))
        \o Flatten([i \in DOMAIN e.Transactions |-> EncodeTransaction(e.Transactions[i])])

\* ----------------------------------------------------------- decoder inputs
\* Most transactions in an entry.
MaxTxns == 2

\* The smallest transaction there is (one signature, no key, no
\* instruction: 102 bytes), a transfer, and a transaction with two
\* signatures that names the watched key and whose instruction data needs a
\* two-byte compact length.
TxMinimal ==
    [Signatures |-> <<Bytes(SignatureLen, 1)>>,
     Message |-> [Header |-> <<0, 0, 0>>, AccountKeys |-> <<>>,
                  RecentBlockhash |-> Bytes(HashLen, 9), Instructions |-> <<>>]]
TxTransfer ==
    [Signatures |-> <<Bytes(SignatureLen, 2)>>,
     Message |-> [Header |-> <<1, 0, 1>>, AccountKeys |-> <<TokenKey, SystemKey>>,
                  RecentBlockhash |-> Bytes(HashLen, 9),
                  Instructions |-> <<[ProgramIDIndex |-> 1, Accounts |-> <<0>>,
                                      Data |-> <<2, 0, 0, 0>>]>>]]
TxPump ==
    [Signatures |-> <<Bytes(SignatureLen, 3), Bytes(SignatureLen, 4)>>,
     Message |-> [Header |-> <<2, 0, 1>>, AccountKeys |-> <<TokenKey, NearPumpKey, PumpKey>>,
                  RecentBlockhash |-> Bytes(HashLen, 9),
                  Instructions |-> <<[ProgramIDIndex |-> 2, Accounts |-> <<0, 1>>,
                                      Data |-> Bytes(130, 5)]>>]]
SampleTxs == {TxMinimal, TxTransfer, TxPump}

\* Well-formed entries of up to MaxTxns transactions.
Entries ==
    {[NumHashes |-> h, Hash |-> Bytes(HashLen, 7), Transactions |-> txs] :
        h \in {0, MaxNumHashes},
        txs \in UNION {[1..n -> SampleTxs] : n \in 0..MaxTxns}}

\* The encoding of every well-formed entry.
Encoded == [e \in Entries |-> EncodeEntry(e)]

\* b with the bytes at offsets at+1.. replaced.
WithBytes(b, at, bytes) ==
    [i \in 1..Len(b) |-> IF i > at /\ i <= at + Len(bytes) THEN bytes[i - at] ELSE b[i]]

\* Offset of transaction k in the encoding of e.
RECURSIVE TxOffset(_, _)
TxOffset(e, k) ==
    IF k = 1 THEN HeaderLen + 2 * Uint64Len + HashLen
    ELSE TxOffset(e, k - 1) + Len(EncodeTransaction(e.Transactions[k - 1]))

\* Counts over the limits: 1,000,001 and 2^63 hashes; 10,001 and 2^32
\* transactions.
HugeHashCounts == {<<65, 66, 15, 0, 0, 0, 0, 0>>, <<0, 0, 0, 0, 0, 0, 0, 128>>}
HugeTxnCounts == {<<17, 39, 0, 0, 0, 0, 0, 0>>, <<0, 0, 0, 0, 1, 0, 0, 0>>}

\* Lengths the buffers are cut to.
CutPoints == {0, 15, 16, 47, 48, 55, 56, 157, 250}

\* The payloads given to the decoder: the encodings of the well-formed
\* entries; those with a count over its limit; with one transaction more
\* declared than encoded; with the signature count of one transaction set
\* to zero; and all of these cut short.
Buffers ==
    LET whole ==
            {Encoded[e] : e \in Entries}
            \cup {WithBytes(Encoded[e], HeaderLen, c) : e \in Entries, c \in HugeHashCounts}
            \cup {WithBytes(Encoded[e], HeaderLen + Uint64Len + HashLen, c) :
                     e \in Entries, c \in HugeTxnCounts}
            \cup {WithBytes(Encoded[e], HeaderLen + Uint64Len + HashLen,
                            EncodeUint64(Len(e.Transactions) + 1)) : e \in Entries}
            \cup UNION {{WithBytes(Encoded[e], TxOffset(e, k), <<0>>) :
                            k \in DOMAIN e.Transactions} : e \in Entries}
    IN whole \cup UNION {{SubSeq(b, 1, n) : n \in {m \in CutPoints : m < Len(b)}} :
                            b \in whole}

DecodeInit ==
    /\ InitProcess
    /\ accountKeys = <<>>
    /\ entriesData \in Buffers

\* One call of parseJitoEntry on the payload.
CallParseJitoEntry ==
    /\ result = NotCalled
    /\ result' = With(parseJitoEntry(entriesData), LAMBDA p :
                      [called |-> TRUE, fn |-> "parseJitoEntry", err |-> p.err,
                       entry |-> p.entry])
    /\ UNCHANGED <<pc, err, resp, tasks, warned, counters, history, rxbuf, report,
                   entriesData, accountKeys, foundAddresses, targetAddresses>>

\* One call of processEntry on the payload (main.go:133), which adds to
\* totalTxs and matchedTxs itself.
CallProcessEntry ==
    /\ result = NotCalled
    /\ \E r \in {processEntry(entriesData)} :
          /\ result' = [called |-> TRUE, fn |-> "processEntry", err |-> r.err,
                        cause |-> r.cause, panic |-> r.panic]
          /\ totalTxs' = totalTxs + r.txs
          /\ matchedTxs' = matchedTxs + r.matched
    /\ UNCHANGED <<pc, err, resp, tasks, warned, totalEntries, parsedEntries, failedEntries,
                   parseErrors, reconnectCount, lastSlot, history, rxbuf, report,
                   entriesData, accountKeys, foundAddresses, targetAddresses>>

DecodeNext == CallParseJitoEntry \/ CallProcessEntry

\* The decoder on its own, over the payloads of Buffers.
DecodeSpec == DecodeInit /\ [][DecodeNext]_vars

\* -------------------------------------------------- receive-buffer reuse
\* A receive buffer the transport has started to refill: the bytes of the
\* frame pulled last are gone and what is there does not parse.
Torn == [len |-> 400, parses |-> FALSE, txs |-> 0, matched |-> 0, fault |-> FALSE]

\* The transport reuses its receive buffer once a frame has been pulled and
\* copied (the case the copy of main.go:125-130 is made for).
TransportReuse ==
    /\ Len(tasks) >= 1
    /\ rxbuf # Torn
    /\ rxbuf' = Torn
    /\ UNCHANGED <<pc, err, resp, tasks, warned, counters, history, aside>>

CopyNext == Next \/ TransportReuse

\* The program with a transport that reuses its receive buffer at any time.
CopySpec == Init /\ [][CopyNext]_vars

\* The Go scheduler runs every runnable goroutine: a task handed to a worker
\* is eventually run and eventually finishes.
FairSpec == Spec /\ \A i \in 1..MaxFrames : WF_vars(RunTask(i)) /\ WF_vars(FinishTask(i))

TypeOK ==
    /\ pc \in {"dial", "recv", "submit", "count", "slot", "returned_err", "sleep"}
    /\ err \in {"nil", "EOF", "error"}
    /\ Len(tasks) <= MaxFrames
    /\ \A i \in DOMAIN tasks : tasks[i].st \in TaskStates
    /\ \A c \in {totalEntries, parsedEntries, failedEntries, totalTxs, matchedTxs,
                 parseErrors, reconnectCount, lastSlot} : c \in Nat
\* ------------------------------------------------------- derived notions
\* Positions of the main goroutine inside one iteration of the read loop,
\* after stream.Recv() returned something other than io.EOF.
InIteration == {"submit", "count", "slot"}

\* A step of the main goroutine.
MainStep ==
    \/ ConnectOK \/ ConnectFail \/ CountReconnect \/ Backoff
    \/ RecvFrame \/ RecvError \/ RecvEOF \/ Submit \/ CountEntry \/ SlotCheck

\* Loop iterations that ran to their end.
Completed == IF pc \in InIteration THEN Len(tasks) - 1 ELSE Len(tasks)

\* Number of tasks in one of the states of S.
NumIn(S) == Cardinality({i \in DOMAIN tasks : tasks[i].st \in S})

\* No worker is running: every accepted task has ended.
Quiescent == NumIn(InFlight \cup {"pulled"}) = 0

\* ------------------------------------------------------------------ claims

\* C1 (as claimed): a read error other than end-of-stream ends the session
\* with an error: once stream.Recv() has returned one, connectAndSubscribe
\* has returned it to main, and nothing is submitted or counted for the read.
C1_ReadErrorFailsSession ==
    err = "error" => pc \in {"returned_err", "sleep", "dial"}

C3_SaturationCounted ==
    [][(/\ pc = "submit"
        /\ pc' = "count"
        /\ tasks'[Len(tasks)].st = "dropped")
       => (parseErrors' = parseErrors + 1 \/ failedEntries' = failedEntries + 1)]_vars

\* C4 (as claimed): once N valid frames have been pulled and no task is
\* running, all N were decoded and totalEntries was incremented N times.
C4_EveryValidFrameDecoded ==
    (pc = "recv" /\ Quiescent /\ \A i \in DOMAIN tasks : tasks[i].data = Good)
    => (parsedEntries = Len(tasks) /\ totalEntries = Len(tasks))

\* C4 (amended): every pulled frame adds exactly one to totalEntries; a frame
\* is dropped exactly when every worker of the pool is busy at its
\* submission and is then never decoded; every accepted frame is decoded
\* exactly once, so the outcome counters add up to the ended tasks, and a
\* valid frame that was decoded is counted in parsedEntries.
C4_AcceptedFramesDecodedOnce ==
    /\ [](totalEntries = Len(tasks) - (IF pc \in {"submit", "count"} THEN 1 ELSE 0))
    /\ [](parsedEntries + failedEntries + parseErrors = NumIn(Ended))
    /\ [](\A i \in DOMAIN tasks :
            (tasks[i].data = Good /\ tasks[i].st \in Ended) => tasks[i].st = "parsed")
    /\ [][/\ (pc = "submit" /\ pc' = "count") =>
               (tasks'[Len(tasks)].st = "dropped" <=> Busy >= PoolCap)
          /\ \A i \in DOMAIN tasks :
               tasks[i].st \in Ended \cup {"dropped"} => tasks'[i].st = tasks[i].st]_vars

\* C4 witness: MaxFrames valid frames were pulled, one was dropped by the
\* saturated pool, the others are decoded.
C4_Witness ==
    /\ pc = "recv" /\ Quiescent /\ Len(tasks) = MaxFrames
    /\ \A i \in DOMAIN tasks : tasks[i].data = Good
    /\ NumIn({"dropped"}) = 1
    /\ parsedEntries = MaxFrames - 1
    /\ totalEntries = MaxFrames

\* C5: after any number of task panics no worker of the pool is lost, the
\* main goroutine still has a next step, and every accepted task has its
\* next step enabled and only ever moves forward (from queued to returned to
\* ended), so that under the scheduling of FairSpec it is decoded.
C5_PoolSurvivesFaults ==
    /\ [](parseErrors > 0 =>
            /\ \A i \in DOMAIN tasks : tasks[i].cur => tasks[i].st \in InFlight
            /\ ENABLED MainStep
            /\ \A i \in DOMAIN tasks :
                 /\ tasks[i].st = "queued" => ENABLED RunTask(i)
                 /\ tasks[i].st \in {"ret_ok", "ret_err"} => ENABLED FinishTask(i))
    /\ [][parseErrors > 0 =>
            \A i \in DOMAIN tasks :
              /\ tasks[i].st = "queued" =>
                   tasks'[i].st \in {"queued", "ret_ok", "ret_err", "panicked"}
              /\ tasks[i].st = "ret_ok" => tasks'[i].st \in {"ret_ok", "parsed"}
              /\ tasks[i].st = "ret_err" => tasks'[i].st \in {"ret_err", "failed"}]_vars

\* The leads-to form of the last part of C5, for FairSpec: every accepted
\* task ends.
AcceptedTasksEnd ==
    \A i \in 1..MaxFrames :
      (i \in DOMAIN tasks /\ tasks[i].st \in InFlight)
        ~> (i \in DOMAIN tasks /\ tasks[i].st \in Ended)

\* C5 witness: as many tasks as the pool has workers have panicked, and a
\* frame pulled after them was accepted and decoded.
C5_Witness ==
    /\ NumIn({"panicked"}) >= PoolCap
    /\ \E i \in DOMAIN tasks :
         /\ tasks[i].st = "parsed"
         /\ \A j \in 1..(i - 1) : tasks[j].st = "panicked"

\* C6 (as claimed): the panic of a task adds one to failedEntries.
C6_PanicCountedAsFailedEntry ==
    [][\A i \in DOMAIN tasks :
         (tasks[i].st = "queued" /\ tasks'[i].st = "panicked")
         => failedEntries' = failedEntries + 1]_vars

\* C6 (amended): the panic of a task is recovered and adds one to
\* parseErrors; failedEntries and parsedEntries are left unchanged.
C6_PanicCountedAsParseError ==
    /\ [](parseErrors = NumIn({"panicked"}))
    /\ [][\A i \in DOMAIN tasks :
            (tasks[i].st = "queued" /\ tasks'[i].st = "panicked")
            => /\ parseErrors' = parseErrors + 1
               /\ failedEntries' = failedEntries
               /\ parsedEntries' = parsedEntries]_vars

\* C6 witness: a task has panicked and was counted.
C6_Witness == NumIn({"panicked"}) >= 1 /\ parseErrors >= 1 /\ failedEntries = 0

\* C7: inside an iteration of the read loop the main goroutine always has
\* its next step enabled, whatever the workers do and however many of them
\* are busy.
C7_SubmitNeverBlocks ==
    /\ pc = "submit" => ENABLED Submit
    /\ pc = "count" => ENABLED CountEntry
    /\ pc = "slot" => ENABLED SlotCheck

\* C7 witness: the reader has gone past Submit although every worker of the
\* pool is busy.
C7_Witness ==
    pc = "count" /\ Busy = PoolCap /\ tasks[Len(tasks)].st = "dropped"

\* C8: a decode error stays inside its task: processEntry returning an error
\* changes no counter, the task then adds one to failedEntries and to
\* nothing else, neither step moves the main goroutine or ends the session,
\* and the task is never run again.
C8_DecodeErrorStaysInTask ==
    /\ [](failedEntries = NumIn({"failed"}))
    /\ [][\A i \in DOMAIN tasks :
            /\ (tasks[i].st = "queued" /\ tasks'[i].st = "ret_err")
               => UNCHANGED <<counters, pc, err, failedSessions>>
            /\ (tasks[i].st = "ret_err" /\ tasks'[i].st # "ret_err")
               => /\ tasks'[i].st = "failed"
                  /\ failedEntries' = failedEntries + 1
                  /\ UNCHANGED <<totalEntries, parsedEntries, totalTxs, matchedTxs,
                                 parseErrors, reconnectCount, lastSlot, pc, err,
                                 failedSessions>>
            /\ tasks[i].st = "failed" => tasks'[i].st = "failed"]_vars

\* C8 witness: a pulled frame failed to decode and a frame pulled after it
\* in the same session was decoded.
C8_Witness ==
    /\ pc \in {"recv"} \cup InIteration
    /\ reconnectCount = 0
    /\ \E i, j \in DOMAIN tasks :
         /\ i < j
         /\ tasks[i].st = "failed" /\ ~tasks[i].readErr
         /\ tasks[j].st = "parsed"

\* The largest slot among the first n pulled frames, 0 when there is none.
RECURSIVE MaxSlot(_)
MaxSlot(n) ==
    IF n = 0 THEN 0
    ELSE IF tasks[n].slot >= MaxSlot(n - 1) THEN tasks[n].slot ELSE MaxSlot(n - 1)

\* The slot handled by the loop iteration before iteration n, 0 for the first.
PrevSlot(n) == IF n <= 1 THEN 0 ELSE tasks[n - 1].slot

\* Every read so far returned a frame.
NoReadError == \A i \in DOMAIN tasks : ~tasks[i].readErr

\* C9 (as claimed): between iterations lastSlot is the largest slot of the
\* frames pulled so far.
C9_LastSlotIsHighWater ==
    (pc = "recv" /\ NoReadError) => lastSlot = MaxSlot(Len(tasks))

\* C9 (amended): lastSlot is the slot of the most recent completed loop
\* iteration, whether lower or higher than the slots before it, and 0 before
\* the first.
C9_LastSlotIsMostRecent ==
    lastSlot = (IF Completed = 0 THEN 0 ELSE tasks[Completed].slot)

\* C9 witness: frames only, and lastSlot is below the largest slot pulled.
C9_Witness ==
    pc = "recv" /\ NoReadError /\ Completed >= 2 /\ lastSlot < MaxSlot(Completed)

\* C10 (as claimed): from the second frame on, the slot check warns exactly
\* when the frame's slot exceeds the largest slot pulled before it by more
\* than SlotGap.
C10_WarnsOnHighWaterGap ==
    (pc = "recv" /\ NoReadError /\ Completed >= 2)
    => (warned <=> tasks[Completed].slot > MaxSlot(Completed - 1) + SlotGap)

\* C10 (amended): the slot check warns exactly when the slot of the previous
\* iteration is positive and the frame's slot exceeds it by more than
\* SlotGap; nothing is printed before the first check.
C10_WarnsOnGapToPreviousSlot ==
    warned <=> /\ Completed >= 1
               /\ PrevSlot(Completed) > 0
               /\ tasks[Completed].slot > PrevSlot(Completed) + SlotGap

\* C10 witness: a warning was printed for a frame whose slot does not exceed
\* the largest slot pulled before it.
C10_Witness ==
    /\ pc = "recv" /\ NoReadError /\ Completed >= 3
    /\ warned
    /\ tasks[Completed].slot <= MaxSlot(Completed - 1)

\* C16: when stream.Recv() returns io.EOF, connectAndSubscribe returns nil:
\* main is back at the top of its loop without passing through the error
\* branch, no counter changes (reconnectCount in particular), no task is
\* added or submitted by that step, and after it the reader handles no
\* frame until a new stream is open.
C16_EndOfStreamClosesCleanly ==
    /\ [](err = "EOF" => pc \in {"dial", "returned_err", "sleep"})
    /\ [][err' = "EOF" /\ err # "EOF" =>
            /\ pc = "recv" /\ pc' = "dial"
            /\ UNCHANGED <<counters, failedSessions>>
            /\ Len(tasks') = Len(tasks)
            /\ \A i \in DOMAIN tasks : tasks'[i].st = tasks[i].st]_vars
    /\ [][err = "EOF" /\ pc = "dial" /\ pc' = "returned_err" =>
            failedSessions' = failedSessions + 1 /\ tasks' = tasks]_vars

\* C16 witness: a stream that delivered a frame has ended and no reconnect
\* was counted.
C16_Witness ==
    err = "EOF" /\ pc = "dial" /\ Len(tasks) >= 1 /\ reconnectCount = 0 /\ totalEntries >= 1

\* C20 (as claimed): a frame is never counted as decoded or failed before
\* it has been counted as seen.
C20_OutcomesNeverAheadOfTotal ==
    parsedEntries + failedEntries <= totalEntries

\* The outcome counters run ahead of totalEntries by at most the one frame
\* that was submitted and is not yet counted (line 132 precedes line 146).
OutcomesAheadByAtMostOne ==
    parsedEntries + failedEntries + parseErrors
      <= totalEntries + (IF pc = "count" THEN 1 ELSE 0)

\* C18: the entry a task works on is a copy taken when the frame is pulled:
\* it equals the receive buffer at that moment, no later step changes its
\* bytes or its slot (a reuse of the receive buffer in particular), and when
\* a worker runs the task, the result of processEntry and what it adds to
\* totalTxs and matchedTxs are those of the copy, whatever the receive buffer
\* holds by then.
C18_TaskDecodesItsCopy ==
    /\ [][Len(tasks') > Len(tasks) /\ err' = "nil" =>
            /\ tasks'[Len(tasks')].data = rxbuf'
            /\ tasks'[Len(tasks')].slot = resp'.slot]_vars
    /\ [][\A i \in DOMAIN tasks :
            /\ tasks'[i].data = tasks[i].data
            /\ tasks'[i].slot = tasks[i].slot]_vars
    /\ [][\A i \in DOMAIN tasks :
            tasks[i].st = "queued" /\ tasks'[i].st # "queued" =>
                LET d == tasks[i].data
                    r == ProcessResult(d)
                IN /\ tasks'[i].st = (IF r = "panic" THEN "panicked"
                                      ELSE IF r = "ok" THEN "ret_ok" ELSE "ret_err")
                   /\ totalTxs' = totalTxs + TxsCounted(d)
                   /\ matchedTxs' = matchedTxs + TxsMatched(d)]_vars

\* C18 witness: the receive buffer has been refilled, and the task of a
\* valid frame has decoded its two transactions all the same.
C18_Witness ==
    /\ rxbuf = Torn
    /\ Len(tasks) = 1
    /\ tasks[1].data = Good /\ tasks[1].st = "ret_ok"
    /\ totalTxs = 2 /\ matchedTxs = 1

\* C11 (as claimed): no printed block holds a rate that was computed with a
\* zero denominator.
C11_RatesHaveNonZeroDenominator ==
    report.printed => report.successRate.den # 0 /\ report.matchRate.den # 0

\* C19 (as claimed): every block printStats prints shows each of the eight
\* counters from its own variable, as they are at that tick.
C19_SnapshotReportsEachCounter ==
    [][report' # report =>
          /\ report'.total = totalEntries
          /\ report'.parsed = parsedEntries
          /\ report'.failed = failedEntries
          /\ report'.txs = totalTxs
          /\ report'.matched = matchedTxs
          /\ report'.parseErrors = parseErrors
          /\ report'.reconnects = reconnectCount
          /\ report'.slot = lastSlot]_vars

\* C15: the map containsAddresses returns holds the address text of a key
\* exactly when that key occurs in the account table, at whatever index, and
\* is watched, with the label of the watch-list; a table without a watched
\* key gives the empty map; the watch-list is left as it was.
C15_MatchesExactlyWatchedKeys ==
    foundAddresses.called =>
        /\ ~foundAddresses.panic
        /\ DOMAIN foundAddresses.found \subseteq DOMAIN PumpWatchList
        /\ \A s \in DOMAIN foundAddresses.found : foundAddresses.found[s] = PumpWatchList[s]
        /\ (PumpAddress \in DOMAIN foundAddresses.found)
              <=> (\E k \in DOMAIN accountKeys : accountKeys[k] = PumpKey)
        /\ targetAddresses = PumpWatchList

\* C15 witness: the watched key stands last in a table of three keys and is
\* returned with its label.
C15_Witness ==
    /\ foundAddresses.called
    /\ accountKeys = <<TokenKey, NearPumpKey, PumpKey>>
    /\ foundAddresses.found = [s \in {PumpAddress} |-> "pump"]

\* ---------------------------------------------------- claims on the decoder
\* Offset of the first transaction in a headered payload.
BodyOffset == HeaderLen + 2 * Uint64Len + HashLen

\* The payload holds the whole headered prefix.
HasPrefix == Len(entriesData) >= BodyOffset

\* num_hashes and num_txns as the payload declares them.
DeclaredHashes == ReadUint64(entriesData, HeaderLen)
DeclaredTxns == ReadUint64(entriesData, HeaderLen + Uint64Len + HashLen)

\* The payload declares counts within the limits.
ReasonableCounts ==
    /\ HasPrefix
    /\ ~Exceeds(DeclaredHashes, MaxNumHashes)
    /\ ~Exceeds(DeclaredTxns, MaxNumTxns)

\* The transactions that decode one after the other from pos, n at most: the
\* transactions before the first one that fails.
RECURSIVE Leading(_, _, _)
Leading(data, pos, n) ==
    IF n = 0 THEN <<>>
    ELSE With(UnmarshalTransaction(data, pos), LAMBDA tx :
         IF ~tx.ok THEN <<>>
         ELSE <<tx.val>> \o Leading(data, tx.pos, n - 1))

\* parseJitoEntry has been called on the payload.
Parsed == result.called /\ result.fn = "parseJitoEntry"

\* processEntry has been called on the payload.
Processed == result.called /\ result.fn = "processEntry"

\* C12 (as claimed): for a payload declaring N transactions, if the first
\* transaction fails to decode, parseJitoEntry fails and returns no entry;
\* if transaction k, 2 <= k <= N, is the first to fail, it succeeds and
\* returns exactly transactions 1..k-1.
C12_PartialSuccess ==
    Parsed /\ ReasonableCounts =>
        LET N == DeclaredTxns.lo
            good == Leading(entriesData, BodyOffset, N)
        IN /\ N >= 1 /\ Len(good) = 0 => result.err # "nil" /\ result.entry = <<>>
           /\ Len(good) >= 1 /\ Len(good) < N =>
                 /\ result.err = "nil"
                 /\ result.entry[1].Transactions = good

\* C12 (amended): the same, for a payload whose declared count passes the
\* size estimate (N * 100 bytes at most remain to be read); a payload that
\* fails the estimate is rejected whole, whichever transaction is corrupt.
C12_PartialSuccessAfterSizeCheck ==
    Parsed /\ ReasonableCounts =>
        LET N == DeclaredTxns.lo
            good == Leading(entriesData, BodyOffset, N)
            enough == N * MinTxBytes <= Remaining(entriesData, BodyOffset)
        IN /\ ~enough => result.err = "InsufficientBytes" /\ result.entry = <<>>
           /\ enough /\ N >= 1 /\ Len(good) = 0 =>
                 result.err = "FirstTransactionCorrupt" /\ result.entry = <<>>
           /\ enough /\ Len(good) >= 1 /\ Len(good) < N =>
                 /\ result.err = "nil"
                 /\ result.entry[1].Transactions = good
                 /\ result.entry[1].NumHashes = DeclaredHashes.lo

\* C12 witness: a payload declares two transactions, the second has no
\* signature, and the entry returned holds the first one only.
C12_Witness ==
    /\ Parsed
    /\ HasPrefix /\ DeclaredTxns.lo = 2
    /\ result.err = "nil"
    /\ result.entry[1].Transactions = <<TxPump>>
    /\ Len(entriesData) = Len(Encoded[[NumHashes |-> 0, Hash |-> Bytes(HashLen, 7),
                                       Transactions |-> <<TxPump, TxTransfer>>]])

\* C13: a payload that holds the whole prefix and declares more than
\* 1,000,000 hashes is rejected as UnreasonableHashCount, one that declares
\* more than 10,000 transactions as UnreasonableTxnCount, however many bytes
\* follow the prefix; no entry is returned, and processEntry returns that
\* error wrapped and adds nothing to totalTxs and matchedTxs.
C13_UnreasonableCountsRejected ==
    HasPrefix /\ result.called =>
        LET kind == IF Exceeds(DeclaredHashes, MaxNumHashes) THEN "UnreasonableHashCount"
                    ELSE IF Exceeds(DeclaredTxns, MaxNumTxns) THEN "UnreasonableTxnCount"
                    ELSE "nil"
        IN kind # "nil" =>
              /\ Parsed => result.err = kind /\ result.entry = <<>>
              /\ Processed =>
                    /\ result.err = "AllParsersFailed" /\ result.cause = kind
                    /\ totalTxs = 0 /\ matchedTxs = 0

\* C13 witness: a payload of exactly the prefix, declaring 10,001
\* transactions, has been rejected for its count.
C13_Witness ==
    /\ Parsed
    /\ Len(entriesData) = BodyOffset
    /\ DeclaredTxns.lo = MaxNumTxns + 1
    /\ result.err = "UnreasonableTxnCount"

\* C14: on a payload shorter than 48 bytes processEntry returns the
\* too-small error, without having called a parser, and changes no counter.
C14_ShortPayloadRejected ==
    [][Len(entriesData) < MinEntryLen /\ ~result.called /\ result'.called
           /\ result'.fn = "processEntry" =>
          /\ result'.err = "TooSmall"
          /\ result'.cause = "nil"
          /\ ~result'.panic
          /\ UNCHANGED counters]_vars

\* C14 witness: a payload of 47 bytes has been rejected as too small.
C14_Witness ==
    Processed /\ Len(entriesData) = MinEntryLen - 1 /\ result.err = "TooSmall"

\* C17: parseJitoEntry on the encoding of a well-formed entry returns that
\* entry: the same num_hashes, hash and transactions in the same order; and
\* processEntry accepts the encoding and counts its transactions.
C17_RoundTrip ==
    result.called =>
        \A e \in Entries :
            entriesData = Encoded[e] =>
                /\ Parsed => result.err = "nil" /\ result.entry = <<e>>
                /\ Processed => result.err = "nil" /\ totalTxs = Len(e.Transactions)

\* C17 witness: an entry with the largest num_hashes and two transactions,
\* the first of the smallest size, has come back from its encoding.
C17_Witness ==
    /\ Parsed
    /\ result.err = "nil"
    /\ result.entry = <<[NumHashes |-> MaxNumHashes, Hash |-> Bytes(HashLen, 7),
                         Transactions |-> <<TxMinimal, TxPump>>]>>
    /\ entriesData = EncodeEntry(result.entry[1])
====
